---- MODULE Spec2Model ----
(***************************************************************************)
(* A model of the Spanish 21 simulator of src/Spanish21.py: the cards, the *)
(* shoe, the hands, the side-bet evaluator, the basic strategy and the     *)
(* round engine (Spanish21Simulator.simulate_round).                       *)
(*                                                                         *)
(* The shoe is a shuffled list from which deal() pops the last card.  The  *)
(* model keeps the shoe as its length and the number of copies of every    *)
(* card still in it; the card a deal pops is a nondeterministic choice     *)
(* among the cards that remain (any of them can be last after              *)
(* random.shuffle).  The simulations explored are those whose shuffles     *)
(* bring up the cards of a small pool.                                     *)
(* The bets and the bankroll main reads are whole dollars.  The amounts    *)
(* the program computes from them (payouts, wagered and paid totals, the   *)
(* bankroll) are kept in half dollars, and the payout multipliers, which   *)
(* are 0, 0.5, 1, 2, 2.5 and 3 in the source, are kept doubled (0, 1, 2,   *)
(* 4, 5, 6): bet * multiplier is then exact for every whole bet.           *)
(***************************************************************************)
EXTENDS Integers, Sequences, FiniteSets, TLC

\* ------------------------------------------------------------------ cards

Suits == <<"H", "D", "C", "S">>

Ranks == <<"A", "2", "3", "4", "5", "6", "7", "8", "9", "J", "Q", "K">>

RankSet == {Ranks[i] : i \in 1..Len(Ranks)}

SuitSet == {Suits[i] : i \in 1..Len(Suits)}

Card(r, s) == [rank |-> r, suit |-> s]

Cards == {Card(r, s) : r \in RankSet, s \in SuitSet}

\* int(self.rank) for the numeral ranks
IntOfRank(r) ==
    CASE r = "2" -> 2 [] r = "3" -> 3 [] r = "4" -> 4 [] r = "5" -> 5
      [] r = "6" -> 6 [] r = "7" -> 7 [] r = "8" -> 8 [] r = "9" -> 9

\* Card.value
CardValue(c) ==
    IF c.rank \in {"J", "Q", "K"} THEN 10
    ELSE IF c.rank = "A" THEN 11
    ELSE IntOfRank(c.rank)

\* Card.__eq__
CardEq(a, b) == a.rank = b.rank /\ a.suit = b.suit

\* ------------------------------------------------------------------ hands

RECURSIVE SumValues(_)
SumValues(cs) == IF cs = <<>> THEN 0 ELSE CardValue(Head(cs)) + SumValues(Tail(cs))

RECURSIVE CountAces(_)
CountAces(cs) ==
    IF cs = <<>> THEN 0
    ELSE (IF Head(cs).rank = "A" THEN 1 ELSE 0) + CountAces(Tail(cs))

\* ReduceAces with `if` in place of `while`: at most one ace is counted as 1
ReduceOneAce(total, aces) ==
    IF total > 21 /\ aces > 0 THEN [total |-> total - 10, aces |-> aces - 1]
    ELSE [total |-> total, aces |-> aces]

\* the loop  while total > 21 and aces > 0: total -= 10; aces -= 1
RECURSIVE ReduceAces(_, _)
ReduceAces(total, aces) ==
    IF total > 21 /\ aces > 0 THEN ReduceAces(total - 10, aces - 1)
    ELSE [total |-> total, aces |-> aces]

\* Hand.value
HandValue(cs) == ReduceAces(SumValues(cs), CountAces(cs)).total

\* Hand.is_hard
IsHard(cs) ==
    IF CountAces(cs) = 0 THEN TRUE
    ELSE ReduceAces(SumValues(cs), CountAces(cs)).aces = 0

\* Hand.is_soft
IsSoft(cs) == ~IsHard(cs) /\ \E i \in 1..Len(cs) : cs[i].rank = "A"

\* Hand.is_bust
IsBust(cs) == HandValue(cs) > 21

\* Hand.is_21
Is21(cs) == HandValue(cs) = 21

\* ------------------------------------------------------------------ side bets

\* Spanish21Simulator.evaluate_match
RECURSIVE evaluate_match(_, _)
evaluate_match(player_cards, dealer_card) ==
    IF player_cards = <<>> THEN [suited |-> 0, nonsuited |-> 0]
    ELSE LET card == Head(player_cards)
             rest == evaluate_match(Tail(player_cards), dealer_card)
         IN  IF card.rank = dealer_card.rank
             THEN IF card.suit = dealer_card.suit
                  THEN [rest EXCEPT !.suited = @ + 1]
                  ELSE [rest EXCEPT !.nonsuited = @ + 1]
             ELSE rest

\* calculate_match_payout with the one-suited test ahead of the combined one
PayoutSuitedFirst(matches) ==
    IF matches.suited = 2 THEN 24
    ELSE IF matches.suited = 1 THEN 12
    ELSE IF matches.suited = 1 /\ matches.nonsuited = 1 THEN 15
    ELSE IF matches.nonsuited = 2 THEN 6
    ELSE IF matches.nonsuited = 1 THEN 3
    ELSE 0

\* Spanish21Simulator.calculate_match_payout
calculate_match_payout(matches) ==
    IF matches.suited = 2 THEN 24
    ELSE IF matches.suited = 1 /\ matches.nonsuited = 1 THEN 15
    ELSE IF matches.suited = 1 THEN 12
    ELSE IF matches.nonsuited = 2 THEN 6
    ELSE IF matches.nonsuited = 1 THEN 3
    ELSE 0

\* MatchResult.__init__
NewMatchResult ==
    [one_nonsuited |-> 0, two_nonsuited |-> 0, one_suited |-> 0,
     one_suited_one_nonsuited |-> 0, two_suited |-> 0]

\* update_match_stats with the one-suited test ahead of the combined one
UpdateSuitedFirst(matches, match_result) ==
    IF matches.suited = 2 THEN [match_result EXCEPT !.two_suited = @ + 1]
    ELSE IF matches.suited = 1 THEN [match_result EXCEPT !.one_suited = @ + 1]
    ELSE IF matches.suited = 1 /\ matches.nonsuited = 1
         THEN [match_result EXCEPT !.one_suited_one_nonsuited = @ + 1]
    ELSE IF matches.nonsuited = 2 THEN [match_result EXCEPT !.two_nonsuited = @ + 1]
    ELSE IF matches.nonsuited = 1 THEN [match_result EXCEPT !.one_nonsuited = @ + 1]
    ELSE match_result

\* Spanish21Simulator.update_match_stats
update_match_stats(matches, match_result) ==
    IF matches.suited = 2 THEN [match_result EXCEPT !.two_suited = @ + 1]
    ELSE IF matches.suited = 1 /\ matches.nonsuited = 1
         THEN [match_result EXCEPT !.one_suited_one_nonsuited = @ + 1]
    ELSE IF matches.suited = 1 THEN [match_result EXCEPT !.one_suited = @ + 1]
    ELSE IF matches.nonsuited = 2 THEN [match_result EXCEPT !.two_nonsuited = @ + 1]
    ELSE IF matches.nonsuited = 1 THEN [match_result EXCEPT !.one_nonsuited = @ + 1]
    ELSE match_result

\* ------------------------------------------------------------------ strategy

\* should_hit surrendering whether or not the top card was matched
SurrenderWithoutMatch(cards, dealer_upcard, auto_surrender, has_top_match) ==
    LET player_value == HandValue(cards)
        dealer_value == CardValue(dealer_upcard)
        is_soft == IsSoft(cards)
    IN  IF /\ auto_surrender /\ Len(cards) = 2
           /\ IsHard(cards) /\ 13 <= player_value /\ player_value <= 16
           /\ dealer_upcard.rank \in {"7", "8", "9", "J", "Q", "K", "A"}
        THEN "surrender"
        ELSE IF is_soft
        THEN IF player_value <= 17 THEN "hit"
             ELSE IF player_value = 18
                  THEN (IF dealer_value >= 9 THEN "hit" ELSE "stand")
                  ELSE "stand"
        ELSE IF player_value <= 11 THEN "hit"
        ELSE IF player_value = 12
             THEN (IF dealer_value \in {4, 5, 6} THEN "stand" ELSE "hit")
        ELSE IF 13 <= player_value /\ player_value <= 16
             THEN (IF dealer_value <= 6 THEN "stand" ELSE "hit")
        ELSE "stand"

\* Spanish21Simulator.should_hit
should_hit(cards, dealer_upcard, auto_surrender, has_top_match) ==
    LET player_value == HandValue(cards)
        dealer_value == CardValue(dealer_upcard)
        is_soft == IsSoft(cards)
    IN  IF /\ auto_surrender /\ Len(cards) = 2 /\ has_top_match
           /\ IsHard(cards) /\ 13 <= player_value /\ player_value <= 16
           /\ dealer_upcard.rank \in {"7", "8", "9", "J", "Q", "K", "A"}
        THEN "surrender"
        ELSE IF is_soft
        THEN IF player_value <= 17 THEN "hit"
             ELSE IF player_value = 18
                  THEN (IF dealer_value >= 9 THEN "hit" ELSE "stand")
                  ELSE "stand"
        ELSE IF player_value <= 11 THEN "hit"
        ELSE IF player_value = 12
             THEN (IF dealer_value \in {4, 5, 6} THEN "stand" ELSE "hit")
        ELSE IF 13 <= player_value /\ player_value <= 16
             THEN (IF dealer_value <= 6 THEN "stand" ELSE "hit")
        ELSE "stand"

\* the dealer's loop condition standing on every 17
StandOnSoft17(cs) == HandValue(cs) < 17

\* the loop condition of Spanish21Simulator.play_dealer_hand
DealerDraws(cs) == HandValue(cs) < 17 \/ (HandValue(cs) = 17 /\ IsSoft(cs))

\* ------------------------------------------------------------------ winner

\* determine_winner comparing with the dealer before the rules for 21
CompareBefore21(player_hand, dealer_cards) ==
    LET player_value == HandValue(player_hand.cards)
        dealer_value == HandValue(dealer_cards)
        n == Len(player_hand.cards)
    IN  IF player_hand.surrendered THEN [mult2 |-> 1, counter |-> "hands_surrendered"]
        ELSE IF IsBust(player_hand.cards) THEN [mult2 |-> 0, counter |-> "hands_lost"]
        ELSE IF IsBust(dealer_cards) THEN [mult2 |-> 4, counter |-> "hands_won"]
        ELSE IF player_value = dealer_value THEN [mult2 |-> 2, counter |-> "hands_pushed"]
        ELSE IF player_value < dealer_value THEN [mult2 |-> 0, counter |-> "hands_lost"]
        ELSE IF n = 2 /\ player_value = 21 THEN [mult2 |-> 5, counter |-> "hands_won"]
        ELSE IF player_value = 21 /\ n = 5 THEN [mult2 |-> 5, counter |-> "hands_won"]
        ELSE IF player_value = 21 /\ n = 6 THEN [mult2 |-> 6, counter |-> "hands_won"]
        ELSE [mult2 |-> 4, counter |-> "hands_won"]

\* Spanish21Simulator.determine_winner: the doubled multiplier it returns and
\* the outcome counter it increments.
determine_winner(player_hand, dealer_cards) ==
    LET player_value == HandValue(player_hand.cards)
        dealer_value == HandValue(dealer_cards)
        n == Len(player_hand.cards)
    IN  IF player_hand.surrendered THEN [mult2 |-> 1, counter |-> "hands_surrendered"]
        ELSE IF IsBust(player_hand.cards) THEN [mult2 |-> 0, counter |-> "hands_lost"]
        ELSE IF n = 2 /\ player_value = 21 THEN [mult2 |-> 5, counter |-> "hands_won"]
        ELSE IF player_value = 21 /\ n = 5 THEN [mult2 |-> 5, counter |-> "hands_won"]
        ELSE IF player_value = 21 /\ n = 6 THEN [mult2 |-> 6, counter |-> "hands_won"]
        ELSE IF player_value = 21 THEN [mult2 |-> 4, counter |-> "hands_won"]
        ELSE IF IsBust(dealer_cards) THEN [mult2 |-> 4, counter |-> "hands_won"]
        ELSE IF player_value > dealer_value THEN [mult2 |-> 4, counter |-> "hands_won"]
        ELSE IF player_value = dealer_value THEN [mult2 |-> 2, counter |-> "hands_pushed"]
        ELSE [mult2 |-> 0, counter |-> "hands_lost"]

\* ------------------------------------------------------------------ shoe

\* Shoe(8) in Spanish21Simulator.__init__
NumDecks == 8

\* the reshuffle threshold of Shoe.deal
ReshuffleAt == 50

\* Shoe.reshuffle: num_decks copies of every (rank, suit).  The list is kept
\* as its length and the copies of every card in it.
reshuffle(n) ==
    [size |-> n * Len(Suits) * Len(Ranks), copies |-> [c \in Cards |-> n]]

\* Shoe.cards_remaining: len(self.cards)
cards_remaining(cards) == cards.size

\* The cards random.shuffle may have left at the end of the list: any card
\* still in the shoe.
LastCards(cards) == {c \in Cards : cards.copies[c] > 0}

\* BeforePop without the rebuild
PopOnly(cards, n) == cards

\* BeforePop rebuilding on top of the cards that remain
RebuildOnTop(cards, n) ==
    IF cards_remaining(cards) <= ReshuffleAt
    THEN [size |-> cards.size + reshuffle(n).size,
          copies |-> [c \in Cards |-> cards.copies[c] + n]]
    ELSE cards

\* Shoe.deal, the part before the pop: rebuild the shoe when it is low
BeforePop(cards, n) ==
    IF cards_remaining(cards) <= ReshuffleAt THEN reshuffle(n) ELSE cards

\* self.cards.pop() returning card c
Pop(cards, c) ==
    [card |-> c,
     cards |-> [size |-> cards.size - 1, copies |-> [cards.copies EXCEPT ![c] = @ - 1]]]

\* Shoe.deal: the outcomes [card, cards] of one call
deal(cards, n) ==
    {Pop(BeforePop(cards, n), c) : c \in LastCards(BeforePop(cards, n))}

\* ------------------------------------------------------------------ bounds

\* hands played at a time (hands_per_round)
MaxHands == 2

\* calls of simulate_round in one simulation (total_rounds)
MaxRounds == 2

\* decks of a Shoe built on its own
MaxDecks == 3

\* cards added to a Hand built on its own
MaxCards == 4

\* The shuffles explored.  random.shuffle can bring up any card of the shoe;
\* a simulation explores the shuffles that bring up the cards of one pool,
\* the first cards of an order, while the shoe holds one of them, and one
\* fixed shuffle of the other cards afterwards.

\* card kinds in a wide pool
WideCards == 3

\* card kinds in a narrow pool
NarrowCards == 2

\* card kinds in the pool of a long simulation
LongCards == 1

Pool(order, k) == {order[j] : j \in 1..k}

WideOrders ==
    {<<Card("A", "H"), Card("7", "H"), Card("K", "H"), Card("6", "H")>>,
     <<Card("K", "H"), Card("K", "C"), Card("6", "H"), Card("A", "H")>>}

ShortOrders == {<<Card("A", "H"), Card("6", "H"), Card("K", "H")>>}

NarrowOrders ==
    {<<Card("K", "H"), Card("6", "H"), Card("A", "H")>>,
     <<Card("A", "H"), Card("K", "H"), Card("6", "H")>>}

LongOrders ==
    {<<Card("K", "H"), Card("6", "H")>>, <<Card("6", "H"), Card("K", "H")>>}

WidePools ==
    {Pool(o, WideCards) : o \in WideOrders} \cup {Pool(o, NarrowCards) : o \in ShortOrders}

NarrowPools == {Pool(o, NarrowCards) : o \in NarrowOrders}

LongPools == {Pool(o, LongCards) : o \in LongOrders}

\* the outcomes of a deal that the shuffles of pool `favoured` give
Explored(outcomes, favoured) ==
    IF \E o \in outcomes : o.card \in favoured
    THEN {o \in outcomes : o.card \in favoured}
    ELSE IF outcomes = {} THEN {}
    ELSE {CHOOSE o \in outcomes : TRUE}

\* the bets and the bankroll of the simulations, in dollars (main: a regular
\* bet is at least 10, a side bet is 0 or at least 2)
SideBets == {0, 2}

\* A simulation over a wide pool plays one hand for one round; a simulation
\* over a narrow pool plays up to MaxHands hands for MaxRounds rounds, also
\* with an odd regular bet and with a bankroll that runs out.
Scenarios ==
    {[pool |-> p, hands |-> {1}, rounds |-> 1, bets |-> {10}, bankrolls |-> {1000}] :
        p \in WidePools}
    \cup {[pool |-> p, hands |-> 1..MaxHands, rounds |-> MaxRounds,
           bets |-> {10, 11}, bankrolls |-> {20, 1000}] : p \in NarrowPools}

\* ------------------------------------------------------------------ state

VARIABLES
    num_decks,            \* Shoe.num_decks
    shoe,                 \* Shoe.cards, as copies left of every card
    crashed,              \* a pop from an empty list raised IndexError
    favoured,             \* the cards the explored shuffles bring up
    args,                 \* the arguments main passes to every simulate_round
    current_bankroll,     \* main's current_bankroll, in half dollars
    rounds,               \* rounds_played
    stats,                \* Spanish21Simulator.stats, its amounts in half dollars
    pc,                   \* position in simulate_round
    i,                    \* index of the hand or of the deal in the current loop
    player_hands,         \* simulate_round's player_hands
    dealer_hand,          \* simulate_round's dealer_hand
    dealer_has_blackjack, \* simulate_round's dealer_has_blackjack
    hand_has_top_match,   \* simulate_round's hand_has_top_match
    total_payout,         \* simulate_round's total_payout, in half dollars
    returned              \* the value the last call returned

vars == <<num_decks, shoe, crashed, favoured, args, current_bankroll, rounds, stats, pc, i,
          player_hands, dealer_hand, dealer_has_blackjack, hand_has_top_match,
          total_payout, returned>>

shoeVars == <<num_decks, shoe, crashed, favoured>>

\* an amount of x dollars in half dollars, the unit of the amounts the model
\* keeps: every product of a whole bet and a multiplier is a whole number of
\* half dollars
Halves(x) == 2 * x

\* Hand.__init__
NewHand == [cards |-> <<>>, bet |-> 0, surrendered |-> FALSE, is_blackjack |-> FALSE]

\* Spanish21Simulator.__init__: the stats dictionary
NewStats ==
    [hands_played |-> 0, hands_won |-> 0, hands_lost |-> 0, hands_pushed |-> 0,
     hands_surrendered |-> 0,
     top_matches |-> NewMatchResult, bottom_matches |-> NewMatchResult,
     top_bets_hit |-> 0, bottom_bets_hit |-> 0,
     total_top_bet_payout |-> 0, total_bottom_bet_payout |-> 0,
     total_top_bet_wagered |-> 0, total_bottom_bet_wagered |-> 0,
     total_regular_wagered |-> 0, total_regular_payout |-> 0]

\* the bankroll, the bets, hands_per_round and total_rounds main reads, for
\* one scenario
ArgSets(sc) ==
    [bankroll : sc.bankrolls, num_hands : sc.hands, total_rounds : {sc.rounds},
     regular_bet : sc.bets, top_bet : SideBets, bottom_bet : SideBets,
     auto_surrender : BOOLEAN]

\* main, line 419: bet_per_round
bet_per_round(a) == Halves((a.regular_bet + a.top_bet + a.bottom_bet) * a.num_hands)

NoRound ==
    /\ pc = "idle"
    /\ i = 0
    /\ player_hands = <<>>
    /\ dealer_hand = NewHand
    /\ dealer_has_blackjack = FALSE
    /\ hand_has_top_match = <<>>
    /\ total_payout = 0

\* simulator = Spanish21Simulator() and the arguments read by main, for the
\* scenarios scs
InitOver(scs) ==
    /\ num_decks = NumDecks
    /\ shoe = reshuffle(NumDecks)
    /\ crashed = FALSE
    /\ \E sc \in scs : favoured = sc.pool /\ args \in ArgSets(sc)
    /\ current_bankroll = Halves(args.bankroll)
    /\ rounds = 0
    /\ stats = NewStats
    /\ returned = 0
    /\ NoRound

Init == InitOver(Scenarios)

\* ------------------------------------------------------------------ round

\* main, lines 421-429, and simulate_round, lines 293-294: with enough
\* bankroll the bets are deducted and one more round starts, with fresh hands;
\* without, the loop is left
StartRound ==
    /\ pc = "idle"
    /\ ~crashed
    /\ rounds < args.total_rounds
    /\ current_bankroll >= bet_per_round(args)
    /\ current_bankroll' = current_bankroll - bet_per_round(args)
    /\ player_hands' = [h \in 1..args.num_hands |-> NewHand]
    /\ dealer_hand' = NewHand
    /\ pc' = "deal"
    /\ i' = 1
    /\ UNCHANGED <<shoeVars, args, rounds, stats, dealer_has_blackjack,
                   hand_has_top_match, total_payout, returned>>

\* simulate_round, lines 296-304: the i-th deal of the initial deal.  Deals
\* 1..n go to the player hands, deal n+1 is the dealer's upcard, deals
\* n+2..2n+1 go to the player hands again and deal 2n+2 is the hole card.
InitialDeal ==
    /\ pc = "deal"
    /\ LET n == args.num_hands
       IN  \E o \in Explored(deal(shoe, num_decks), favoured) :
            /\ shoe' = o.cards
            /\ IF i <= n
               THEN /\ player_hands' =
                          [player_hands EXCEPT ![i].cards = Append(@, o.card),
                                               ![i].bet = Halves(args.regular_bet)]
                    /\ UNCHANGED dealer_hand
               ELSE IF i = n + 1 \/ i = 2 * n + 2
               THEN /\ dealer_hand' = [dealer_hand EXCEPT !.cards = Append(@, o.card)]
                    /\ UNCHANGED player_hands
               ELSE /\ player_hands' =
                          [player_hands EXCEPT ![i - n - 1].cards = Append(@, o.card)]
                    /\ UNCHANGED dealer_hand
            /\ IF i = 2 * n + 2
               THEN pc' = "sidebets" /\ i' = 1
               ELSE pc' = pc /\ i' = i + 1
    /\ UNCHANGED <<num_decks, crashed, favoured, args, current_bankroll, rounds, stats,
                   dealer_has_blackjack, hand_has_top_match, total_payout, returned>>

\* simulate_round, lines 316-326: the top card match of one hand.  acc holds
\* the stats, total_payout and hand_has_top_match so far.
TopBet(acc, hand, dealer_cards, top_bet) ==
    IF top_bet > 0
    THEN LET top_matches == evaluate_match(hand.cards, dealer_cards[1])
             top_payout == calculate_match_payout(top_matches)
             hit == IF top_payout > 0
                    THEN [acc EXCEPT
                            !.stats.top_bets_hit = @ + 1,
                            !.total_payout = @ + Halves(top_bet * top_payout),
                            !.stats.total_top_bet_payout = @ + Halves(top_bet * top_payout),
                            !.stats.top_matches = update_match_stats(top_matches, @)]
                    ELSE acc
         IN  [hit EXCEPT !.stats.total_top_bet_wagered = @ + Halves(top_bet),
                         !.flags = Append(@, top_payout > 0)]
    ELSE [acc EXCEPT !.flags = Append(@, FALSE)]

\* simulate_round, lines 329-337: the bottom card match of one hand
BottomBet(acc, hand, dealer_cards, bottom_bet) ==
    IF bottom_bet > 0
    THEN LET bottom_matches == evaluate_match(hand.cards, dealer_cards[2])
             bottom_payout == calculate_match_payout(bottom_matches)
             hit == IF bottom_payout > 0
                    THEN [acc EXCEPT
                            !.stats.bottom_bets_hit = @ + 1,
                            !.total_payout = @ + Halves(bottom_bet * bottom_payout),
                            !.stats.total_bottom_bet_payout = @ + Halves(bottom_bet * bottom_payout),
                            !.stats.bottom_matches = update_match_stats(bottom_matches, @)]
                    ELSE acc
         IN  [hit EXCEPT !.stats.total_bottom_bet_wagered = @ + Halves(bottom_bet)]
    ELSE acc

\* simulate_round, lines 313-337: the loop over the player hands, from hand j
RECURSIVE SideBetLoop(_, _, _, _, _)
SideBetLoop(acc, j, hands, dealer_cards, a) ==
    IF j > Len(hands) THEN acc
    ELSE SideBetLoop(
            BottomBet(TopBet(acc, hands[j], dealer_cards, a.top_bet),
                      hands[j], dealer_cards, a.bottom_bet),
            j + 1, hands, dealer_cards, a)

\* simulate_round, line 307
DealerBlackjack(cards) == Len(cards) = 2 /\ HandValue(cards) = 21

\* simulate_round, lines 306-340: dealer blackjack, the side bets of every
\* hand, and the branch on dealer blackjack
EvaluateSideBets ==
    /\ pc = "sidebets"
    /\ LET acc == SideBetLoop([stats |-> stats, total_payout |-> 0, flags |-> <<>>],
                              1, player_hands, dealer_hand.cards, args)
       IN  /\ stats' = acc.stats
           /\ total_payout' = acc.total_payout
           /\ hand_has_top_match' = acc.flags
    /\ dealer_has_blackjack' = DealerBlackjack(dealer_hand.cards)
    /\ pc' = IF DealerBlackjack(dealer_hand.cards) THEN "settle" ELSE "play"
    /\ i' = 1
    /\ UNCHANGED <<shoeVars, args, current_bankroll, rounds, player_hands, dealer_hand, returned>>

\* simulate_round, line 349
AnyHandLive(hands) ==
    \E h \in 1..Len(hands) : ~IsBust(hands[h].cards) /\ ~hands[h].surrendered

\* AfterHand for a play_hand that does not return
NeverDone(hands) == UNCHANGED <<pc, i>>

\* where simulate_round goes once hand i is done: the next hand, or after the
\* last one the dealer's play (line 350) or the settlement
AfterHand(hands) ==
    IF i < Len(hands) THEN pc' = "play" /\ i' = i + 1
    ELSE /\ pc' = IF AnyHandLive(hands) THEN "dealer" ELSE "settle"
         /\ i' = 1

\* simulate_round, lines 343-346, and one turn of play_hand's loop for hand i
PlayHand ==
    /\ pc = "play"
    /\ LET hand == player_hands[i]
           action == should_hit(hand.cards, dealer_hand.cards[1],
                                args.auto_surrender, hand_has_top_match[i])
       IN  IF Len(hand.cards) = 2 /\ HandValue(hand.cards) = 21
           THEN /\ player_hands' = [player_hands EXCEPT ![i].is_blackjack = TRUE]
                /\ AfterHand(player_hands')
                /\ UNCHANGED shoe
           ELSE IF action = "surrender"
           THEN /\ player_hands' = [player_hands EXCEPT ![i].surrendered = TRUE]
                /\ AfterHand(player_hands')
                /\ UNCHANGED shoe
           ELSE IF action = "stand"
           THEN /\ UNCHANGED <<player_hands, shoe>>
                /\ AfterHand(player_hands)
           ELSE \E o \in Explored(deal(shoe, num_decks), favoured) :
                    /\ shoe' = o.cards
                    /\ player_hands' =
                          [player_hands EXCEPT ![i].cards = Append(@, o.card)]
                    /\ IF IsBust(player_hands'[i].cards)
                       THEN AfterHand(player_hands')
                       ELSE UNCHANGED <<pc, i>>
    /\ UNCHANGED <<num_decks, crashed, favoured, args, current_bankroll, rounds, stats, dealer_hand,
                   dealer_has_blackjack, hand_has_top_match, total_payout, returned>>

\* play_dealer_hand: one turn of the loop
DealerDraw ==
    /\ pc = "dealer"
    /\ DealerDraws(dealer_hand.cards)
    /\ \E o \in Explored(deal(shoe, num_decks), favoured) :
            /\ shoe' = o.cards
            /\ dealer_hand' = [dealer_hand EXCEPT !.cards = Append(@, o.card)]
    /\ UNCHANGED <<num_decks, crashed, favoured, args, current_bankroll, rounds, stats, pc, i,
                   player_hands, dealer_has_blackjack, hand_has_top_match,
                   total_payout, returned>>

\* play_dealer_hand: the loop ends
DealerStand ==
    /\ pc = "dealer"
    /\ ~DealerDraws(dealer_hand.cards)
    /\ pc' = "settle"
    /\ i' = 1
    /\ UNCHANGED <<shoeVars, args, current_bankroll, rounds, stats, player_hands, dealer_hand,
                   dealer_has_blackjack, hand_has_top_match, total_payout, returned>>

\* Bump leaving a push uncounted
BumpNoPush(st, counter) ==
    CASE counter = "hands_won" -> [st EXCEPT !.hands_won = @ + 1]
      [] counter = "hands_lost" -> [st EXCEPT !.hands_lost = @ + 1]
      [] counter = "hands_pushed" -> st
      [] counter = "hands_surrendered" -> [st EXCEPT !.hands_surrendered = @ + 1]

\* stats[counter] += 1
Bump(st, counter) ==
    CASE counter = "hands_won" -> [st EXCEPT !.hands_won = @ + 1]
      [] counter = "hands_lost" -> [st EXCEPT !.hands_lost = @ + 1]
      [] counter = "hands_pushed" -> [st EXCEPT !.hands_pushed = @ + 1]
      [] counter = "hands_surrendered" -> [st EXCEPT !.hands_surrendered = @ + 1]

\* regular_bet * multiplier in half dollars, the multiplier given doubled
Times(regular_bet, mult2) == regular_bet * mult2

\* simulate_round, lines 353-370: the settlement of one hand.  Its result is
\* the new stats and the amount added to total_payout.
SettleHand(st, hand, dealer, dealer_bj, regular_bet) ==
    LET wagered == [st EXCEPT !.total_regular_wagered = @ + Halves(regular_bet)]
    IN  IF dealer_bj
        THEN IF hand.is_blackjack
             THEN [stats |-> [wagered EXCEPT !.hands_pushed = @ + 1,
                                             !.total_regular_payout = @ + Halves(regular_bet)],
                   payout |-> Halves(regular_bet)]
             ELSE [stats |-> [wagered EXCEPT !.hands_lost = @ + 1], payout |-> 0]
        ELSE LET w == determine_winner(hand, dealer.cards)
                 payout == Times(regular_bet, w.mult2)
             IN  [stats |-> [Bump(wagered, w.counter) EXCEPT
                                !.total_regular_payout = @ + payout],
                  payout |-> payout]

\* simulate_round, lines 353-370: one turn of the loop, for hand i
Settle ==
    /\ pc = "settle"
    /\ i <= Len(player_hands)
    /\ LET r == SettleHand(stats, player_hands[i], dealer_hand,
                           dealer_has_blackjack, args.regular_bet)
       IN  /\ stats' = r.stats
           /\ total_payout' = total_payout + r.payout
    /\ i' = i + 1
    /\ UNCHANGED <<shoeVars, args, current_bankroll, rounds, pc, player_hands, dealer_hand,
                   dealer_has_blackjack, hand_has_top_match, returned>>

\* simulate_round, lines 372-373, and main, lines 433-434: the payout goes to
\* the bankroll and rounds_played += 1; the round's hands and locals go out
\* of scope
Return ==
    /\ pc = "settle"
    /\ i > Len(player_hands)
    /\ stats' = [stats EXCEPT !.hands_played = @ + args.num_hands]
    /\ returned' = total_payout
    /\ rounds' = rounds + 1
    /\ pc' = "idle"
    /\ i' = 0
    /\ player_hands' = <<>>
    /\ dealer_hand' = NewHand
    /\ dealer_has_blackjack' = FALSE
    /\ hand_has_top_match' = <<>>
    /\ total_payout' = 0
    /\ current_bankroll' = current_bankroll + total_payout
    /\ UNCHANGED <<shoeVars, args>>

Next ==
    \/ StartRound
    \/ InitialDeal
    \/ EvaluateSideBets
    \/ PlayHand
    \/ DealerDraw
    \/ DealerStand
    \/ Settle
    \/ Return

Spec == Init /\ [][Next]_vars

\* The scenarios of one round that starts, with one regular bet and without
\* the bottom bet (no branch of the play reads the amounts)
OneRound ==
    {[sc EXCEPT !.rounds = 1, !.bets = {10}, !.bankrolls = {1000}] : sc \in Scenarios}

FairInit == InitOver(OneRound) /\ args.bottom_bet = 0

\* The program is sequential: the statement it is at is executed.
FairSpec == FairInit /\ [][Next]_vars /\ WF_vars(Next)

\* rounds of a long simulation (total_hands // hands_per_round), enough to
\* deal the shoe down to the reshuffle threshold
LongRounds == 90

LongRuns ==
    {[pool |-> p, hands |-> 1..MaxHands, rounds |-> LongRounds,
      bets |-> {10}, bankrolls |-> {10000}] : p \in LongPools}

LongInit == InitOver(LongRuns)

\* a simulation of LongRounds rounds on one simulator
SpecLong == LongInit /\ [][Next]_vars

\* ------------------------------------------------------------------ a Shoe on its own

\* the simulator's variables, unused while a class is exercised on its own
NoSimulator ==
    /\ args = [bankroll |-> 0, num_hands |-> 1, total_rounds |-> 0, regular_bet |-> 10,
               top_bet |-> 0, bottom_bet |-> 0, auto_surrender |-> FALSE]
    /\ current_bankroll = 0
    /\ rounds = 0
    /\ stats = NewStats
    /\ returned = 0

\* Shoe(num_decks), for the simulator's 8 decks and for small numbers of decks
ShoeInit ==
    /\ num_decks \in (0..MaxDecks) \cup {NumDecks}
    /\ shoe = reshuffle(num_decks)
    /\ crashed = FALSE
    /\ favoured \in NarrowPools
    /\ NoSimulator
    /\ NoRound

\* Shoe.deal, called by any client; self.cards.pop() raises IndexError on an
\* empty list
ShoeDeal ==
    /\ ~crashed
    /\ IF deal(shoe, num_decks) = {}
       THEN crashed' = TRUE /\ shoe' = BeforePop(shoe, num_decks)
       ELSE \E o \in Explored(deal(shoe, num_decks), favoured) :
                shoe' = o.cards /\ crashed' = FALSE
    /\ UNCHANGED <<num_decks, favoured, args, current_bankroll, rounds, stats, pc, i, player_hands,
                   dealer_hand, dealer_has_blackjack, hand_has_top_match,
                   total_payout, returned>>

SpecShoe == ShoeInit /\ [][ShoeDeal]_vars

\* ------------------------------------------------------------------ a Hand on its own

\* Hand()
HandInit ==
    /\ num_decks = NumDecks
    /\ shoe = reshuffle(NumDecks)
    /\ crashed = FALSE
    /\ favoured = {}
    /\ NoSimulator
    /\ NoRound

\* Hand.add_card, called with a card of any rank
HandAddCard ==
    /\ Len(dealer_hand.cards) < MaxCards
    /\ \E r \in RankSet :
            dealer_hand' = [dealer_hand EXCEPT !.cards = Append(@, Card(r, "H"))]
    /\ pc' = "idle"
    /\ UNCHANGED <<shoeVars, args, current_bankroll, rounds, stats, i, player_hands,
                   dealer_has_blackjack, hand_has_top_match, total_payout, returned>>

\* Hand.value, called on the hand as it is
HandValueCall ==
    /\ pc = "idle"
    /\ returned' = HandValue(dealer_hand.cards)
    /\ pc' = "value"
    /\ UNCHANGED <<shoeVars, args, current_bankroll, rounds, stats, i, player_hands, dealer_hand,
                   dealer_has_blackjack, hand_has_top_match, total_payout>>

SpecHand == HandInit /\ [][HandAddCard \/ HandValueCall]_vars

\* ------------------------------------------------------------------ the side-bet evaluator on its own

\* the dealer cards the evaluator is tried on
MatchDealerCards == {Card(r, s) : r \in {"7", "K"}, s \in SuitSet}

\* a two-card player hand and one dealer card
MatchInit ==
    /\ num_decks = NumDecks
    /\ shoe = reshuffle(NumDecks)
    /\ crashed = FALSE
    /\ favoured = {}
    /\ NoSimulator
    /\ pc = "idle"
    /\ i = 0
    /\ \E a \in Cards, b \in Cards :
            player_hands = <<[NewHand EXCEPT !.cards = <<a, b>>]>>
    /\ \E d \in MatchDealerCards : dealer_hand = [NewHand EXCEPT !.cards = <<d>>]
    /\ dealer_has_blackjack = FALSE
    /\ hand_has_top_match = <<>>
    /\ total_payout = 0

\* calculate_match_payout(evaluate_match(player_cards, dealer_card))
MatchCall ==
    /\ pc = "idle"
    /\ returned' = calculate_match_payout(
                        evaluate_match(player_hands[1].cards, dealer_hand.cards[1]))
    /\ pc' = "matched"
    /\ UNCHANGED <<shoeVars, args, current_bankroll, rounds, stats, i, player_hands, dealer_hand,
                   dealer_has_blackjack, hand_has_top_match, total_payout>>

SpecMatch == MatchInit /\ [][MatchCall]_vars

\* ------------------------------------------------------------------ claims

\* a two-card 21
Natural(cards) == Len(cards) = 2 /\ HandValue(cards) = 21

\* the four outcome counters, in the order won, lost, pushed, surrendered
Outcomes(st) == <<st.hands_won, st.hands_lost, st.hands_pushed, st.hands_surrendered>>

\* a step of the settlement loop, for hand i
SettleStep == pc = "settle" /\ i <= Len(player_hands) /\ i' = i + 1

\* C1: when the dealer's two cards total 21, settling a player hand that is a
\* natural two-card 21 adds exactly regular_bet to total_payout and to
\* total_regular_payout and increments hands_pushed alone; settling any other
\* hand adds nothing and increments hands_lost alone.
C1_DealerBlackjackSettlement ==
    [][(SettleStep /\ DealerBlackjack(dealer_hand.cards)) =>
        IF Natural(player_hands[i].cards)
        THEN /\ total_payout' = total_payout + Halves(args.regular_bet)
             /\ stats'.total_regular_payout =
                    stats.total_regular_payout + Halves(args.regular_bet)
             /\ Outcomes(stats') = <<stats.hands_won, stats.hands_lost,
                                     stats.hands_pushed + 1, stats.hands_surrendered>>
        ELSE /\ total_payout' = total_payout
             /\ stats'.total_regular_payout = stats.total_regular_payout
             /\ Outcomes(stats') = <<stats.hands_won, stats.hands_lost + 1,
                                     stats.hands_pushed, stats.hands_surrendered>>]_vars

\* the hands of the current round that are settled already
SettledNow == IF pc = "settle" THEN i - 1 ELSE 0

\* C2: the four outcome counters add up to the hands settled so far: to
\* hands_played between rounds, and to hands_played plus the hands already
\* settled inside a round; hands_played is num_hands times the rounds played,
\* so nothing is reset between rounds.
C2_OutcomeCountersAddUp ==
    /\ stats.hands_won + stats.hands_lost + stats.hands_pushed
          + stats.hands_surrendered = stats.hands_played + SettledNow
    /\ stats.hands_played = rounds * args.num_hands

\* C2 witness: two rounds of two hands are over and every outcome has occurred
C2_Witness ==
    /\ pc = "idle"
    /\ rounds = 2
    /\ stats.hands_played = 4
    /\ stats.hands_won >= 1
    /\ stats.hands_lost >= 1
    /\ stats.hands_pushed >= 1
    /\ stats.hands_surrendered >= 1

\* the k-th card of a deck, in the order reshuffle builds it: suit by suit
CardAt(k) == Card(Ranks[((k - 1) % Len(Ranks)) + 1], Suits[((k - 1) \div Len(Ranks)) + 1])

\* the cards in a shoe, counted copy by copy over the first k cards of a deck
RECURSIVE CopiesUpTo(_, _)
CopiesUpTo(cards, k) ==
    IF k = 0 THEN 0 ELSE cards.copies[CardAt(k)] + CopiesUpTo(cards, k - 1)

InShoe(cards) == CopiesUpTo(cards, 48)

\* C3: for num_decks >= 1 a deal never pops from an empty shoe; a deal that
\* starts with at most 50 cards leaves num_decks * 48 - 1 cards, any other
\* deal leaves one card less than it found.
C3_DealNeverEmpty ==
    [][num_decks >= 1 =>
        /\ ~crashed'
        /\ InShoe(shoe') =
              (IF InShoe(shoe) <= 50 THEN num_decks * 48 ELSE InShoe(shoe)) - 1
        /\ cards_remaining(shoe') = InShoe(shoe')]_<<shoe, crashed>>

\* C3 witness: a one-deck shoe holds 48 cards, so its first deal rebuilt it
\* and then removed one card
C3_Witness == num_decks = 1 /\ ~crashed /\ InShoe(shoe) = 47

\* the total of a hand with every ace counted as 1
RECURSIVE AcesLow(_)
AcesLow(cs) ==
    IF cs = <<>> THEN 0
    ELSE AcesLow(Tail(cs)) +
         (IF Head(cs).rank = "A" THEN 1
          ELSE IF Head(cs).rank \in {"J", "Q", "K"} THEN 10
          ELSE IntOfRank(Head(cs).rank))

\* the totals of a hand, each ace counted as 1 or as 11
Totals(cs) ==
    {AcesLow(cs) + 10 * k : k \in 0..Cardinality({j \in 1..Len(cs) : cs[j].rank = "A"})}

\* C5: Hand.value returns the largest total of the hand that is at most 21,
\* and the total with every ace counted as 1 when there is none.
C5_ValueIsBestTotal ==
    pc = "value" =>
        LET good == {t \in Totals(dealer_hand.cards) : t <= 21}
        IN  IF good # {}
            THEN returned \in good /\ \A t \in good : t <= returned
            ELSE returned = AcesLow(dealer_hand.cards)

\* C5 witness: value() was called on [A, A, 9] and returned 21
C5_Witness ==
    /\ pc = "value"
    /\ Len(dealer_hand.cards) = 3
    /\ dealer_hand.cards[1].rank = "A"
    /\ dealer_hand.cards[2].rank = "A"
    /\ dealer_hand.cards[3].rank = "9"
    /\ returned = 21

\* C6: the side bet pays by the first tier that matches, where suited counts
\* the player cards equal to the dealer card in rank and suit and nonsuited
\* those equal in rank only.
C6_MatchPayoutTable ==
    pc = "matched" =>
        LET d == dealer_hand.cards[1]
            cs == player_hands[1].cards
            suited == Cardinality({j \in 1..2 : cs[j].rank = d.rank /\ cs[j].suit = d.suit})
            nonsuited == Cardinality({j \in 1..2 : cs[j].rank = d.rank /\ cs[j].suit # d.suit})
        IN  returned =
              CASE suited = 2 -> 24
                [] suited = 1 /\ nonsuited = 1 -> 15
                [] suited = 1 /\ nonsuited = 0 -> 12
                [] suited = 0 /\ nonsuited = 2 -> 6
                [] suited = 0 /\ nonsuited = 1 -> 3
                [] OTHER -> 0

\* C6 witness: dealer 7 of hearts against player 7 of hearts and 7 of clubs paid 15
C6_Witness ==
    /\ pc = "matched"
    /\ dealer_hand.cards = <<Card("7", "H")>>
    /\ player_hands[1].cards = <<Card("7", "H"), Card("7", "C")>>
    /\ returned = 15

\* a settlement step in a round without dealer blackjack
WinnerStep == SettleStep /\ ~DealerBlackjack(dealer_hand.cards)

\* the rules of the settlement in their order, each with its doubled multiplier
WinnerRules(h, d) ==
    LET pv == HandValue(h.cards)
        dv == HandValue(d)
        n == Len(h.cards)
    IN  << <<h.surrendered, 1>>, <<pv > 21, 0>>, <<n = 2 /\ pv = 21, 5>>,
           <<n = 5 /\ pv = 21, 5>>, <<n = 6 /\ pv = 21, 6>>, <<pv = 21, 4>>,
           <<dv > 21, 4>>, <<pv > dv, 4>>, <<pv = dv, 2>>, <<pv < dv, 0>> >>

FirstRule(rules) ==
    CHOOSE k \in 1..Len(rules) : rules[k][1] /\ \A j \in 1..(k - 1) : ~rules[j][1]

\* C4: without dealer blackjack a hand is paid regular_bet times the
\* multiplier of the first rule that applies; a natural, and any 21 that is
\* not bust or surrendered, increments hands_won and leaves hands_pushed.
C4_WinnerPrecedence ==
    [][WinnerStep =>
        LET h == player_hands[i]
            rules == WinnerRules(h, dealer_hand.cards)
            mult2 == rules[FirstRule(rules)][2]
        IN  /\ total_payout' - total_payout = args.regular_bet * mult2
            /\ stats'.total_regular_payout - stats.total_regular_payout
                  = args.regular_bet * mult2
            /\ (HandValue(h.cards) = 21 /\ ~h.surrendered) =>
                  /\ stats'.hands_won = stats.hands_won + 1
                  /\ stats'.hands_pushed = stats.hands_pushed]_vars

\* C4 witness: a player natural was settled against a dealer who drew to 21,
\* and was paid 2.5 times the bet as a win
C4_Witness ==
    /\ pc = "settle"
    /\ i = 2
    /\ Natural(player_hands[1].cards)
    /\ Len(dealer_hand.cards) >= 3
    /\ HandValue(dealer_hand.cards) = 21
    /\ stats.hands_won = 1
    /\ stats.hands_pushed = 0
    /\ stats.total_regular_payout = 5 * args.regular_bet

\* the first two cards of hand h call for surrender
SurrenderCase(h) ==
    LET cs == SubSeq(player_hands[h].cards, 1, 2)
        up == dealer_hand.cards[1]
    IN  /\ args.auto_surrender
        /\ args.top_bet > 0
        /\ \E j \in 1..2 : cs[j].rank = up.rank
        /\ \A j \in 1..2 : cs[j].rank # "A"
        /\ AcesLow(cs) \in 13..16
        /\ up.rank \in {"7", "8", "9", "J", "Q", "K", "A"}

\* hand h has been through play_hand
Played(h) == pc \in {"dealer", "settle"} \/ (pc = "play" /\ h < i)

\* C7: without dealer blackjack a hand is surrendered exactly when it has
\* been played and its first two cards call for surrender; a surrendered hand
\* has two cards; its settlement pays half the bet and increments
\* hands_surrendered alone.
C7_SurrenderExactly ==
    /\ []((pc \in {"play", "dealer", "settle"} /\ ~dealer_has_blackjack) =>
            \A h \in 1..Len(player_hands) :
                /\ player_hands[h].surrendered <=> (Played(h) /\ SurrenderCase(h))
                /\ player_hands[h].surrendered => Len(player_hands[h].cards) = 2)
    /\ [][(WinnerStep /\ player_hands[i].surrendered) =>
            /\ total_payout' - total_payout = args.regular_bet
            /\ Outcomes(stats') = <<stats.hands_won, stats.hands_lost,
                                    stats.hands_pushed, stats.hands_surrendered + 1>>]_vars

\* C7 witness: a surrendered hand was settled at half the bet
C7_Witness ==
    /\ pc = "settle"
    /\ i = 2
    /\ rounds = 0
    /\ player_hands[1].surrendered
    /\ Len(player_hands[1].cards) = 2
    /\ stats.hands_surrendered = 1
    /\ stats.total_regular_payout = args.regular_bet

\* the dealer's rule: below 17, or 17 with an ace counted as 11
MustDraw(cs) == HandValue(cs) < 17 \/ (HandValue(cs) = 17 /\ HandValue(cs) # AcesLow(cs))

\* every card after the second was drawn on a hand that had to draw
DrawnByRule(cs) == \A k \in 2..(Len(cs) - 1) : MustDraw(SubSeq(cs, 1, k))

\* some player hand is neither bust nor surrendered
SomeHandLive ==
    \E h \in 1..Len(player_hands) :
        HandValue(player_hands[h].cards) <= 21 /\ ~player_hands[h].surrendered

\* C8: the dealer draws only without dealer blackjack and with a player hand
\* that is neither bust nor surrendered, then exactly while the rule says so:
\* the final hand is at least 17 and no soft 17; otherwise the dealer keeps
\* the two dealt cards.
C8_DealerPlay ==
    /\ pc \in {"sidebets", "play"} => Len(dealer_hand.cards) = 2
    /\ pc = "dealer" =>
          /\ ~DealerBlackjack(dealer_hand.cards)
          /\ SomeHandLive
          /\ DrawnByRule(dealer_hand.cards)
    /\ pc = "settle" =>
          IF ~DealerBlackjack(SubSeq(dealer_hand.cards, 1, 2)) /\ SomeHandLive
          THEN /\ DrawnByRule(dealer_hand.cards)
               /\ ~MustDraw(dealer_hand.cards)
               /\ HandValue(dealer_hand.cards) >= 17
          ELSE Len(dealer_hand.cards) = 2

\* C8 witness: a dealer dealt ace and six, a soft 17, drew again and then stood
C8_Witness ==
    /\ pc = "settle"
    /\ Len(dealer_hand.cards) >= 3
    /\ dealer_hand.cards[1].rank = "A"
    /\ dealer_hand.cards[2].rank = "6"

\* C9: a round that has started returns, and when it has returned every hand
\* played so far has been settled once (each settlement wagers regular_bet
\* and increments one outcome counter).
C9_RoundTerminates ==
    /\ (pc # "idle") ~> (pc = "idle")
    /\ [](pc = "idle" =>
            /\ stats.total_regular_wagered = Halves(args.regular_bet * stats.hands_played)
            /\ stats.hands_won + stats.hands_lost + stats.hands_pushed
                  + stats.hands_surrendered = stats.hands_played)

\* C9 witness: a round in which the player hit twice and the dealer drew
\* twice has settled its hand and is about to return
C9_Witness ==
    /\ pc = "settle"
    /\ i > Len(player_hands)
    /\ Len(player_hands[1].cards) >= 4
    /\ Len(dealer_hand.cards) >= 4

\* the paid amount the category counters of a side bet stand for
CategoryPay(m) ==
    3 * m.one_nonsuited + 6 * m.two_nonsuited + 12 * m.one_suited
        + 15 * m.one_suited_one_nonsuited + 24 * m.two_suited

CategorySum(m) ==
    m.one_nonsuited + m.two_nonsuited + m.one_suited
        + m.one_suited_one_nonsuited + m.two_suited

\* the hands whose side bets are evaluated: those of the rounds returned and,
\* once the side bets of the current round are done, its hands
SideBetHands ==
    stats.hands_played + (IF pc \in {"play", "dealer", "settle"} THEN args.num_hands ELSE 0)

\* C10: for the top and for the bottom side bet, the amount wagered is the
\* bet times the hands evaluated, the hits are the sum of the five category
\* counters, and the amount paid is the bet times the tiers of the categories
\* counted.
C10_SideBetAccounts ==
    /\ stats.total_top_bet_wagered = Halves(args.top_bet * SideBetHands)
    /\ stats.top_bets_hit = CategorySum(stats.top_matches)
    /\ stats.total_top_bet_payout = Halves(args.top_bet * CategoryPay(stats.top_matches))
    /\ stats.total_bottom_bet_wagered = Halves(args.bottom_bet * SideBetHands)
    /\ stats.bottom_bets_hit = CategorySum(stats.bottom_matches)
    /\ stats.total_bottom_bet_payout = Halves(args.bottom_bet * CategoryPay(stats.bottom_matches))

\* C10 witness: in a second round the dealer has blackjack, and both side
\* bets have been hit, the top one in both rounds
C10_Witness ==
    /\ pc = "settle"
    /\ rounds = 1
    /\ dealer_has_blackjack
    /\ args.top_bet > 0
    /\ args.bottom_bet > 0
    /\ stats.top_bets_hit > args.num_hands
    /\ stats.bottom_bets_hit >= 1

\* the copies of card c held in the hands of the current round
RECURSIVE CopiesIn(_, _)
CopiesIn(cs, c) ==
    IF cs = <<>> THEN 0
    ELSE (IF CardEq(Head(cs), c) THEN 1 ELSE 0) + CopiesIn(Tail(cs), c)

RECURSIVE CopiesInHands(_, _, _)
CopiesInHands(hands, h, c) ==
    IF h > Len(hands) THEN 0
    ELSE CopiesIn(hands[h].cards, c) + CopiesInHands(hands, h + 1, c)

Held(c) == CopiesInHands(player_hands, 1, c) + CopiesIn(dealer_hand.cards, c)

\* the copies of card c in the shoe and in the hands of the current round
InPlay(c) == shoe.copies[c] + Held(c)

\* the number of cards in the hands of the current round
RECURSIVE HeldCards(_, _)
HeldCards(hands, h) ==
    IF h > Len(hands) THEN 0 ELSE Len(hands[h].cards) + HeldCards(hands, h + 1)

\* the shoe was rebuilt during the current round while a hand held a card:
\* more cards are in the shoe and in the hands than a full shoe has
RebuiltInRound ==
    cards_remaining(shoe) + HeldCards(player_hands, 1) + Len(dealer_hand.cards)
        > num_decks * Len(Suits) * Len(Ranks)

\* a step that deals a card
DealStep == shoe' # shoe

\* C11 as stated: at every point of a simulation, for every card the copies
\* in the shoe plus the copies in the hands of the current round are at most
\* num_decks.
C11_CardConservation == \A c \in Cards : InPlay(c) <= num_decks

\* C11 amended: the copies of a card in the shoe are at most num_decks; the
\* copies in the shoe plus those in the hands are at most num_decks as long
\* as the shoe has not been rebuilt during the round; a deal without a
\* rebuild moves one card from the shoe to a hand; a deal that rebuilds the
\* shoe leaves num_decks copies of every card in the shoe and the card
\* dealt, whatever the hands hold.
C11_ConservedUntilRebuild ==
    /\ [](/\ \A c \in Cards : shoe.copies[c] <= num_decks
          /\ ~RebuiltInRound => \A c \in Cards : InPlay(c) <= num_decks)
    /\ [][DealStep =>
            IF cards_remaining(shoe) > ReshuffleAt
            THEN \A c \in Cards : InPlay(c)' = InPlay(c)
            ELSE \A c \in Cards : InPlay(c)' = num_decks + Held(c)]_vars

\* C11 witness: the shoe was rebuilt in the middle of a round, and a card
\* held in a hand before the rebuild is again in the shoe num_decks times
C11_Witness ==
    /\ pc \in {"deal", "play", "dealer"}
    /\ RebuiltInRound
    /\ \E c \in Cards : Held(c) >= 1 /\ shoe.copies[c] = num_decks

====
